---------------------------- MODULE Spec2Model ----------------------------
(***************************************************************************)
(* Incremental convex hull of mdimension_core (hull.rs) and its callers.   *)
(*                                                                         *)
(* Arithmetic.  The code works in f64; the model works in exact integer    *)
(* arithmetic on integer input coordinates.  Every quantity the code       *)
(* normalises is kept multiplied by its positive normalising factor:       *)
(*   - a facet's normal is the un-normalised normal vector n (the code     *)
(*     stores n/|n|), its offset is n.p0 (the code stores n.p0/|n|), and   *)
(*     len2 = n.n is kept beside them;                                     *)
(*   - centroid is the coordinate sum of all points (the code stores       *)
(*     sum/N);                                                             *)
(*   - a projected coordinate is (p - origin).B_k for the un-normalised    *)
(*     Gram-Schmidt vector B_k (the code stores (p - origin).B_k/|B_k|).   *)
(* Comparisons against 0.0 and against EPSILON are translated to the       *)
(* equivalent comparisons on these scaled integers.                        *)
(* Point indices are 0-based as in the source; TLA+ sequences are 1-based, *)
(* so point k of a sequence pts is pts[k+1].                               *)
(***************************************************************************)
EXTENDS Integers, Sequences, FiniteSets, TLC

VARIABLES entry, flat_vertices, dimension, vertices, dim, centroid, facets, i, pc,
          result, dropped, other, knn_k, edge_set

vars == <<entry, flat_vertices, dimension, vertices, dim, centroid, facets, i, pc,
          result, dropped, other, knn_k, edge_set>>

(***************************************************************************)
(* Bounds of the model and program constants.                              *)
(***************************************************************************)
\* Largest number of points beyond the D+1 of the initial simplex.
MaxExtra == 1

\* Longest coordinate buffer and largest k given to build_knn_edges.
MaxFlat == 4

MaxK == 3

\* 1/EPSILON, EPSILON = 1e-9 (also the literal 1e-9 of is_visible).
EpsInv == 1000000000

(***************************************************************************)
(* Vector helpers (nalgebra DVector operations used by hull.rs).           *)
(***************************************************************************)
RECURSIVE SumSeq(_)
SumSeq(s) == IF s = <<>> THEN 0 ELSE Head(s) + SumSeq(Tail(s))

Dot(a, b) == SumSeq([k \in 1..Len(a) |-> a[k] * b[k]])

Sub(a, b) == [k \in 1..Len(a) |-> a[k] - b[k]]

Scale(c, a) == [k \in 1..Len(a) |-> c * a[k]]

Neg(a) == [k \in 1..Len(a) |-> 0 - a[k]]

Zeros(n) == [k \in 1..n |-> 0]

\* Point with 0-based index k.
Pt(pts, k) == pts[k + 1]

\* Vec::remove(j) with 0-based j.
RemoveAt(s, j) == SubSeq(s, 1, j) \o SubSeq(s, j + 2, Len(s))

\* slice::sort on a vector of indices.
Sorted(s) == SortSeq(s, LAMBDA a, b : a < b)

\* (0..n).collect()
Range0(n) == [k \in 1..n |-> k - 1]

(***************************************************************************)
(* Comparisons against EPSILON on scaled integers.                         *)
(*   num / sqrt(len2) > 1e-9  <=>  num > 0 /\ num^2 * 10^18 > len2         *)
(*                            <=>  num > 0 /\ num^2 > floor(len2 / 10^18)  *)
(***************************************************************************)
ExceedsEps(num, len2) == num > 0 /\ num * num > (len2 \div EpsInv) \div EpsInv

\* sqrt(len2) < 1e-9 for an integer len2 >= 0: len2 * 10^18 < 1.
NormBelowEps(len2) == len2 <= (0 \div EpsInv) \div EpsInv

\* Mutant of NormAboveEps: every residual is accepted.
NormAlwaysAbove(len2) == TRUE

\* sqrt(len2) > 1e-9 for an integer len2 >= 0: len2 * 10^18 > 1.
NormAboveEps(len2) == len2 > (1 \div EpsInv) \div EpsInv

(***************************************************************************)
(* Facet::new (hull.rs 87-204).                                            *)
(***************************************************************************)
\* Outcomes of one call: a facet, None, or a panic.
MkFacet(vs, n, off, l2) ==
    [kind |-> "facet", vertices |-> vs, normal |-> n, offset |-> off, len2 |-> l2]

NoFacet == [kind |-> "none", vertices |-> <<>>, normal |-> <<>>, offset |-> 0, len2 |-> 0]

Panic == [kind |-> "panic", vertices |-> <<>>, normal |-> <<>>, offset |-> 0, len2 |-> 0]

\* Cross product e1 x e2 (lines 107-111).
Cross(e1, e2) ==
    << e1[2] * e2[3] - e1[3] * e2[2],
       e1[3] * e2[1] - e1[1] * e2[3],
       e1[1] * e2[2] - e1[2] * e2[1] >>

\* Mutant of OrientFlips: the normal is never flipped.
OrientNeverFlips(normal, p0, cen, n) == FALSE

\* Orientation (lines 120-126 and 190-197): flip the normal when
\* (centroid - p0) . normal > 0.0, then offset = normal . p0.  cen is the
\* coordinate sum of the n points, so centroid - p0 = (cen - n*p0)/n.
OrientFlips(normal, p0, cen, n) == Dot(Sub(cen, Scale(n, p0)), normal) > 0

Orient(vs, normal, p0, cen, n) ==
    LET nrm == IF OrientFlips(normal, p0, cen, n) THEN Neg(normal) ELSE normal
    IN  MkFacet(vs, nrm, Dot(nrm, p0), Dot(nrm, nrm))

\* The dim == 3 fast path (lines 98-133).
FacetNew3(vertex_indices, all_points, cen) ==
    LET p0    == Pt(all_points, vertex_indices[1])
        p1    == Pt(all_points, vertex_indices[2])
        p2    == Pt(all_points, vertex_indices[3])
        cross == Cross(Sub(p1, p0), Sub(p2, p0))
    IN  IF NormBelowEps(Dot(cross, cross))
        THEN NoFacet
        ELSE Orient(vertex_indices, cross, p0, cen, Len(all_points))

\* Determinant of a square matrix given as a sequence of rows.
DropCol(rows, j) == [r \in 1..Len(rows) |-> RemoveAt(rows[r], j - 1)]

RECURSIVE Det(_)
Det(rows) ==
    IF rows = <<>> THEN 1
    ELSE LET top == Head(rows)
             sgn(j) == IF j % 2 = 1 THEN 1 ELSE 0 - 1
         IN  SumSeq([j \in 1..Len(top) |->
                       sgn(j) * top[j] * Det(DropCol(Tail(rows), j))])

\* A vector orthogonal to the dim-1 rows (each of length dim): the signed
\* maximal minors.  It is zero exactly when the rows are linearly dependent;
\* otherwise it spans the 1-D null space of the edge matrix (lines 135-163).
NullVector(rows, d) ==
    [j \in 1..d |-> (IF j % 2 = 1 THEN 1 ELSE 0 - 1) * Det(DropCol(rows, j))]

\* Lines 168-184: the first standard basis vector e_k whose residual after
\* projecting out the rows of V^T exceeds EPSILON gives the normal.  With
\* null direction nv the residual of e_k is (nv[k]/|nv|^2) nv, of norm
\* |nv[k]|/|nv|, so the normal is sign(nv[k]) nv/|nv| for the first such k.
FirstSign(nv) ==
    LET l2 == Dot(nv, nv)
        abs(x) == IF x < 0 THEN 0 - x ELSE x
        ks == {k \in 1..Len(nv) : ExceedsEps(abs(nv[k]), l2)}
        k0 == CHOOSE k \in ks : \A m \in ks : k <= m
    IN  IF nv[k0] < 0 THEN 0 - 1 ELSE 1

RECURSIVE Tuples(_, _)
Tuples(S, n) ==
    IF n = 0 THEN {<<>>}
    ELSE {<<x>> \o t : x \in S, t \in Tuples(S, n - 1)}

\* When the edge rows are linearly dependent the SVD completes V^T with
\* arbitrary orthonormal rows of the null space, and the normal found is some
\* unit vector orthogonal to all edges: any direction of the null space.  The
\* model draws it from the directions with components in -1..1.
NullDirs(rows, d) ==
    {v \in Tuples({0 - 1, 0, 1}, d) :
        /\ Dot(v, v) > 0
        /\ \A r \in 1..Len(rows) : Dot(rows[r], v) = 0}

\* The general path (lines 135-203); dim is neither 3 nor 0.
FacetNewGeneral(vertex_indices, all_points, cen) ==
    LET d    == Len(all_points[1])
        p0   == Pt(all_points, vertex_indices[1])
        rows == [r \in 1..(d - 1) |-> Sub(Pt(all_points, vertex_indices[r + 1]), p0)]
        nv   == NullVector(rows, d)
    IN  IF d = 1
        THEN {Panic}    \* try_svd on the empty 0 x 1 matrix (line 154)
        ELSE IF Dot(nv, nv) = 0
        THEN {Orient(vertex_indices, v, p0, cen, Len(all_points)) : v \in NullDirs(rows, d)}
        ELSE {Orient(vertex_indices, Scale(FirstSign(nv), nv), p0, cen, Len(all_points))}

\* Facet::new: the set of outcomes the call can have.
FacetNew(vertex_indices, all_points, cen) ==
    LET d == Len(all_points[1])
    IN  IF Len(vertex_indices) # d THEN {NoFacet}            \* lines 88-91
        ELSE IF d = 0 THEN {Panic}                            \* vertex_indices[0], line 93
        ELSE IF d = 3 THEN {FacetNew3(vertex_indices, all_points, cen)}
        ELSE FacetNewGeneral(vertex_indices, all_points, cen)

\* Mutant of IsVisible: the comparison is >= 0.0 instead of > 1e-9.
IsVisibleOnPlane(facet, point) == Dot(facet.normal, point) - facet.offset >= 0

\* Facet::is_visible (lines 207-211): normal.p - offset > 1e-9.
IsVisible(facet, point) ==
    ExceedsEps(Dot(facet.normal, point) - facet.offset, facet.len2)

(***************************************************************************)
(* project_to_affine_hull (hull.rs 11-69).                                 *)
(***************************************************************************)
\* Lines 30-33: project the accepted basis vectors out of diff.  The basis
\* vector b stands for the code's unit vector b/|b|, and the residual is kept
\* as a positive multiple with integer components (times b.b, then reduced by
\* the gcd of its components).
RECURSIVE Gcd(_, _)
Gcd(a, b) == IF b = 0 THEN a ELSE Gcd(b, a % b)

RECURSIVE GcdSeq(_)
GcdSeq(v) ==
    IF v = <<>> THEN 0
    ELSE Gcd(IF Head(v) < 0 THEN 0 - Head(v) ELSE Head(v), GcdSeq(Tail(v)))

\* v divided by the positive integer gcd of its components (v itself if zero).
Primitive(v) ==
    LET g == GcdSeq(v) IN IF g = 0 THEN v ELSE [k \in 1..Len(v) |-> v[k] \div g]

RECURSIVE Residual(_, _)
Residual(diff, basis) ==
    IF basis = <<>> THEN diff
    ELSE LET b == Head(basis)
         IN  Residual(Primitive(Sub(Scale(Dot(b, b), diff), Scale(Dot(diff, b), b))),
                      Tail(basis))

\* Lines 25-44: the loop over points 1..n-1, from point k with the basis so far.
RECURSIVE GramSchmidt(_, _, _, _)
GramSchmidt(verts, d, k, basis) ==
    LET diff   == Residual(Sub(Pt(verts, k), Pt(verts, 0)), basis)
        basis2 == IF NormAboveEps(Dot(diff, diff)) THEN Append(basis, diff) ELSE basis
    IN  IF Len(basis2) >= d \/ k + 1 >= Len(verts)
        THEN basis2
        ELSE GramSchmidt(verts, d, k + 1, basis2)

\* Mutant of ProjectToAffineHull: full-rank inputs are re-expressed in the
\* basis as well.
ProjectAlways(verts, original_dim) ==
    IF Len(verts) < 2
    THEN [points |-> verts, dim |-> IF verts = <<>> THEN 0 ELSE Len(verts[1])]
    ELSE LET basis == GramSchmidt(verts, original_dim, 1, <<>>)
         IN  [points |-> [p \in 1..Len(verts) |->
                            [c \in 1..Len(basis) |->
                               Dot(Sub(verts[p], verts[1]), basis[c])]],
              dim |-> Len(basis)]

\* Mutant of ProjectToAffineHull: the points are returned in reverse order.
ProjectReversed(verts, original_dim) ==
    IF Len(verts) < 2
    THEN [points |-> verts, dim |-> IF verts = <<>> THEN 0 ELSE Len(verts[1])]
    ELSE LET basis == GramSchmidt(verts, original_dim, 1, <<>>)
             n     == Len(verts)
         IN  IF Len(basis) >= original_dim
             THEN [points |-> [p \in 1..n |-> verts[n + 1 - p]], dim |-> original_dim]
             ELSE [points |-> [p \in 1..n |->
                                 [c \in 1..Len(basis) |->
                                    Dot(Sub(verts[n + 1 - p], verts[1]), basis[c])]],
                   dim |-> Len(basis)]

\* Mutant of ProjectToAffineHull: the points are returned as they came, in
\* the ambient dimension.
ProjectNever(verts, original_dim) == [points |-> verts, dim |-> original_dim]

ProjectToAffineHull(verts, original_dim) ==
    IF Len(verts) < 2
    THEN [points |-> verts, dim |-> IF verts = <<>> THEN 0 ELSE Len(verts[1])]
    ELSE LET basis == GramSchmidt(verts, original_dim, 1, <<>>)
         IN  IF Len(basis) >= original_dim
             THEN [points |-> verts, dim |-> original_dim]
             ELSE [points |-> [p \in 1..Len(verts) |->
                                 [c \in 1..Len(basis) |->
                                    Dot(Sub(verts[p], verts[1]), basis[c])]],
                   dim |-> Len(basis)]

\* Lines 26-27: `&v - &origin` on vectors of different lengths is a shape
\* mismatch, on which the subtraction panics.  The loop reaches the first
\* point whose length differs from the origin's unless the basis was
\* already full (the break of lines 41-43) at an earlier point.
ProjectPanics(verts, original_dim) ==
    /\ Len(verts) >= 2
    /\ \E m \in 2..Len(verts) :
          /\ Len(verts[m]) # Len(verts[1])
          /\ \A q \in 2..(m - 1) : Len(verts[q]) = Len(verts[1])
          /\ \/ m = 2
             \/ Len(GramSchmidt(SubSeq(verts, 1, m - 1), original_dim, 1, <<>>))
                    < original_dim

(***************************************************************************)
(* convex_hull (hull.rs 215-343), step by step.                            *)
(***************************************************************************)
\* Mutant of TrivialHull: 1-based indices.
TrivialHullOneBased(n) == [k \in 1..n |-> k]

\* Lines 216-219: the trivial hull of n points, (0..n).collect().
TrivialHull(n) == Range0(n)

\* Lines 221-228: the centroid of all points, kept as the coordinate sum.
CentroidSum(verts, d) ==
    [k \in 1..d |-> SumSeq([p \in 1..Len(verts) |-> verts[p][k]])]

\* Line 225: v[i] for i in 0..dim is out of bounds on a point with fewer
\* than dim coordinates.
CentroidPanics(verts, d) == \E p \in 1..Len(verts) : Len(verts[p]) < d

AsFacet(o) ==
    [vertices |-> o.vertices, normal |-> o.normal, offset |-> o.offset, len2 |-> o.len2]

\* Mutant of Collect: the first failure ends the loop.
RECURSIVE CollectUntilFailure(_)
CollectUntilFailure(outs) ==
    IF outs = <<>> THEN {[panic |-> FALSE, facets |-> <<>>, dropped |-> 0]}
    ELSE UNION {
           IF o.kind = "panic"
           THEN {[panic |-> TRUE, facets |-> <<>>, dropped |-> 0]}
           ELSE IF o.kind = "none"
           THEN {[panic |-> FALSE, facets |-> <<>>, dropped |-> 1]}
           ELSE {[panic   |-> r.panic,
                  facets  |-> IF r.panic THEN <<>> ELSE <<AsFacet(o)>> \o r.facets,
                  dropped |-> r.dropped] :
                    r \in CollectUntilFailure(Tail(outs))} :
           o \in Head(outs)}

\* The loops of lines 237-244 and 304-311, given the outcomes of the
\* Facet::new calls in call order: successes are pushed, failures dropped (and
\* counted in dropped, which the code does not keep), a panic unwinds.
RECURSIVE Collect(_)
Collect(outs) ==
    IF outs = <<>> THEN {[panic |-> FALSE, facets |-> <<>>, dropped |-> 0]}
    ELSE UNION {
           IF o.kind = "panic"
           THEN {[panic |-> TRUE, facets |-> <<>>, dropped |-> 0]}
           ELSE {[panic   |-> r.panic,
                  facets  |-> IF r.panic THEN <<>>
                              ELSE (IF o.kind = "facet" THEN <<AsFacet(o)>> ELSE <<>>)
                                   \o r.facets,
                  dropped |-> r.dropped + (IF o.kind = "none" THEN 1 ELSE 0)] :
                    r \in Collect(Tail(outs))} :
           o \in Head(outs)}

BuildFacets(cands, pts, cen) ==
    Collect([k \in 1..Len(cands) |-> FacetNew(cands[k], pts, cen)])

\* Mutant of SimplexFaces: every list omits the last vertex.
SimplexFacesSameVertex(d) == [k \in 1..(d + 1) |-> RemoveAt(Range0(d + 1), d)]

\* Lines 232-239: the d+1 vertex lists of the initial simplex, list k omitting
\* vertex k.
SimplexFaces(d) == [k \in 1..(d + 1) |-> RemoveAt(Range0(d + 1), k - 1)]

\* Lines 251-256.
VisibleIndices(fs, point) == {idx \in 1..Len(fs) : IsVisible(fs[idx], point)}

\* Lines 276-280: ridge j of a facet, as its sorted key.
RidgeKey(facet, j) == Sorted(RemoveAt(facet.vertices, j))

\* Mutant of Horizon: every ridge of a visible facet, whatever its count.
HorizonEveryRidge(fs, vis, d) ==
    {RidgeKey(fs[pr[1]], pr[2]) : pr \in vis \X (0..(d - 1))}

\* Lines 270-291: count each key over the (visible facet, dropped position)
\* pairs; the horizon is the set of keys counted exactly once.
Horizon(fs, vis, d) ==
    LET pairs == vis \X (0..(d - 1))
        keyOf == [pr \in pairs |-> RidgeKey(fs[pr[1]], pr[2])]
        count(key) == Cardinality({pr \in pairs : keyOf[pr] = key})
    IN  {key \in {keyOf[pr] : pr \in pairs} : count(key) = 1}

\* Lines 297-301: the facets that are not visible, in their old order.
RECURSIVE KeepInvisible(_, _, _)
KeepInvisible(fs, vis, idx) ==
    IF idx > Len(fs) THEN <<>>
    ELSE (IF idx \in vis THEN <<>> ELSE <<fs[idx]>>) \o KeepInvisible(fs, vis, idx + 1)

\* The orders in which a HashMap can yield the horizon keys (line 288).
RECURSIVE Perms(_)
Perms(S) ==
    IF S = {} THEN {<<>>}
    ELSE UNION {{<<x>> \o q : q \in Perms(S \ {x})} : x \in S}

\* Lines 324-329: the sorted 3-vertex subsets of one facet, in loop order.
FacetTriangles(vs) ==
    LET n == Len(vs)
        idx == {t \in (1..n) \X (1..n) \X (1..n) : t[1] < t[2] /\ t[2] < t[3]}
        before(a, b) == \/ a[1] < b[1]
                        \/ a[1] = b[1] /\ a[2] < b[2]
                        \/ a[1] = b[1] /\ a[2] = b[2] /\ a[3] < b[3]
        rank(t) == Cardinality({u \in idx : before(u, t)}) + 1
        ordered == [r \in 1..Cardinality(idx) |-> CHOOSE t \in idx : rank(t) = r]
    IN  [r \in 1..Cardinality(idx) |-> Sorted(<<vs[ordered[r][1]], vs[ordered[r][2]], vs[ordered[r][3]]>>)]

\* Mutant of EmitTriangles: every triangle is emitted, seen or not.
RECURSIVE EmitEveryTriangle(_, _)
EmitEveryTriangle(tris, seen) ==
    IF tris = <<>> THEN <<>>
    ELSE Head(tris) \o EmitEveryTriangle(Tail(tris), seen)

\* Mutant of EmitTriangles: the seen set holds lowest vertices instead of
\* whole triangle keys.
RECURSIVE EmitOncePerLowestVertex(_, _)
EmitOncePerLowestVertex(tris, seen) ==
    IF tris = <<>> THEN <<>>
    ELSE IF <<Head(tris)[1]>> \in seen
         THEN EmitOncePerLowestVertex(Tail(tris), seen)
         ELSE Head(tris) \o EmitOncePerLowestVertex(Tail(tris), seen \cup {<<Head(tris)[1]>>})

\* Lines 319-340: emit each triangle the first time its key is seen.
RECURSIVE EmitTriangles(_, _)
EmitTriangles(tris, seen) ==
    IF tris = <<>> THEN <<>>
    ELSE IF Head(tris) \in seen
         THEN EmitTriangles(Tail(tris), seen)
         ELSE Head(tris) \o EmitTriangles(Tail(tris), seen \cup {Head(tris)})

RECURSIVE AllTriangles(_)
AllTriangles(fs) ==
    IF fs = <<>> THEN <<>>
    ELSE FacetTriangles(Head(fs).vertices) \o AllTriangles(Tail(fs))

ExtractTriangles(fs) == EmitTriangles(AllTriangles(fs), {})

\* Mutant of InsertOutcomes: the new facet repeats the ridge's first vertex
\* instead of taking the new point.
InsertRepeatsVertex(fs, pts, cen, d, idx) ==
    LET vis == VisibleIndices(fs, Pt(pts, idx))
        hor == Horizon(fs, vis, d)
        out == [key \in hor |-> FacetNew(Append(key, key[1]), pts, cen)]
        kept == KeepInvisible(fs, vis, 1)
    IN  IF vis = {}
        THEN {[panic |-> FALSE, facets |-> fs, dropped |-> 0]}
        ELSE {[panic |-> b.panic, facets |-> kept \o b.facets, dropped |-> b.dropped] :
                 b \in UNION {Collect([k \in 1..Len(order) |-> out[order[k]]]) :
                                order \in Perms(hor)}}

\* Mutant of InsertOutcomes: only the first horizon ridge taken out of the map
\* gets its facet.
InsertFirstRidgeOnly(fs, pts, cen, d, idx) ==
    LET vis == VisibleIndices(fs, Pt(pts, idx))
        hor == Horizon(fs, vis, d)
        out == [key \in hor |-> FacetNew(Append(key, idx), pts, cen)]
        kept == KeepInvisible(fs, vis, 1)
    IN  IF vis = {}
        THEN {[panic |-> FALSE, facets |-> fs, dropped |-> 0]}
        ELSE {[panic |-> b.panic, facets |-> kept \o b.facets, dropped |-> b.dropped] :
                 b \in UNION {Collect([k \in 1..1 |-> out[order[k]]]) :
                                order \in Perms(hor)}}

\* Lines 247-311 for point idx, when the HashMap yields the horizon ridges in
\* the given order: the facet lists the iteration can leave.  The new facet of
\* a horizon ridge does not depend on that order; only its position does.
InsertOutcomes(fs, pts, cen, d, idx) ==
    LET vis == VisibleIndices(fs, Pt(pts, idx))
        hor == Horizon(fs, vis, d)
        out == [key \in hor |-> FacetNew(Append(key, idx), pts, cen)]
        kept == KeepInvisible(fs, vis, 1)
    IN  IF vis = {}
        THEN {[panic |-> FALSE, facets |-> fs, dropped |-> 0]}       \* lines 259-261
        ELSE {[panic |-> b.panic, facets |-> kept \o b.facets, dropped |-> b.dropped] :
                 b \in UNION {Collect([k \in 1..Len(order) |-> out[order[k]]]) :
                                order \in Perms(hor)}}

(***************************************************************************)
(* The callers' inputs.                                                    *)
(***************************************************************************)
RECURSIVE Flatten(_)
Flatten(pts) == IF pts = <<>> THEN <<>> ELSE Head(pts) \o Flatten(Tail(pts))

\* slice::chunks(size): consecutive chunks, the last one possibly shorter.
RECURSIVE Chunks(_, _)
Chunks(flat, size) ==
    IF flat = <<>> THEN <<>>
    ELSE IF Len(flat) <= size THEN <<flat>>
    ELSE <<SubSeq(flat, 1, size)>> \o Chunks(SubSeq(flat, size + 1, Len(flat)), size)

PointSeqs(pool, maxn) == UNION {Tuples(pool, n) : n \in 0..maxn}

\* The sequences without repetition.
RECURSIVE InjectiveOfLen(_, _)
InjectiveOfLen(pool, n) ==
    IF n = 0 THEN {<<>>}
    ELSE UNION {{Append(q, x) : x \in pool \ {q[k] : k \in 1..Len(q)}} :
                  q \in InjectiveOfLen(pool, n - 1)}

InjectiveSeqs(pool, maxn) == UNION {InjectiveOfLen(pool, n) : n \in 0..maxn}

\* A direct call convex_hull(pts, d).
StartHull(pts, d) ==
    /\ entry = "convex_hull"
    /\ flat_vertices = <<>>
    /\ dimension = d
    /\ vertices = pts
    /\ dim = d
    /\ pc = "Uninitialized"

\* A call compute_convex_hull_wasm(flat, d) with the N x D buffer of pts.
StartWasm(pts, d) ==
    /\ entry = "compute_convex_hull_wasm"
    /\ flat_vertices = Flatten(pts)
    /\ dimension = d
    /\ vertices = <<>>
    /\ dim = 0
    /\ pc = "Adapter"

\* A call generate_convex_hull_faces(vertices, d) (wythoff.rs 671): vertices
\* holds the argument, flat_vertices its coordinates in row-major order.
StartFaces(pts, d) ==
    /\ entry = "generate_convex_hull_faces"
    /\ flat_vertices = Flatten(pts)
    /\ dimension = d
    /\ vertices = pts
    /\ dim = 0
    /\ pc = "Faces"

\* A second, independent invocation of convex_hull: its arguments, its locals
\* and its position, as the record other.  Idle: there is no second call.
OtherCall(pts, d, at) ==
    [vertices |-> pts, dim |-> d, centroid |-> <<>>, facets |-> <<>>, i |-> 0,
     pc |-> at, result |-> <<>>]

Idle == OtherCall(<<>>, 0, "Idle")

Fresh ==
    /\ centroid = <<>>
    /\ facets = <<>>
    /\ i = 0
    /\ result = <<>>
    /\ dropped = 0
    /\ knn_k = 0
    /\ edge_set = {}

\* The origin, the unit points and the all-ones point of dimension 3.
Pool3 == { <<0, 0, 0>>, <<1, 0, 0>>, <<0, 1, 0>>, <<0, 0, 1>>, <<1, 1, 1>> }

\* Every sequence of at most 3 + 1 + MaxExtra points of Pool3, repetitions
\* included, through either entry point.
Init ==
    /\ Fresh
    /\ other = Idle
    /\ \E pts \in PointSeqs(Pool3, 3 + 1 + MaxExtra) :
          StartHull(pts, 3) \/ StartWasm(pts, 3)

\* Orderings of the 8 cube vertices (+-1, +-1, +-1): the lexicographic one
\* and two others.
CubeLex ==
    << <<0 - 1, 0 - 1, 0 - 1>>, <<0 - 1, 0 - 1, 1>>, <<0 - 1, 1, 0 - 1>>, <<0 - 1, 1, 1>>,
       <<1, 0 - 1, 0 - 1>>, <<1, 0 - 1, 1>>, <<1, 1, 0 - 1>>, <<1, 1, 1>> >>

CubeMixed ==
    << <<0 - 1, 0 - 1, 0 - 1>>, <<0 - 1, 0 - 1, 1>>, <<0 - 1, 1, 0 - 1>>, <<1, 0 - 1, 1>>,
       <<0 - 1, 1, 1>>, <<1, 1, 0 - 1>>, <<1, 0 - 1, 0 - 1>>, <<1, 1, 1>> >>

CubeGood ==
    << <<0 - 1, 0 - 1, 0 - 1>>, <<0 - 1, 0 - 1, 1>>, <<1, 0 - 1, 0 - 1>>, <<1, 1, 0 - 1>>,
       <<0 - 1, 1, 0 - 1>>, <<0 - 1, 1, 1>>, <<1, 0 - 1, 1>>, <<1, 1, 1>> >>

CubeOrders == {CubeLex, CubeMixed, CubeGood}

\* The prefixes of each ordering, and each ordering followed by a copy of one
\* of its points.
CubeInputs ==
    {SubSeq(o, 1, n) : o \in CubeOrders, n \in 0..8}
        \cup {Append(o, o[k]) : o \in CubeOrders, k \in 1..8}

InitCube ==
    /\ Fresh
    /\ other = Idle
    /\ \E pts \in CubeInputs : StartHull(pts, 3) \/ StartWasm(pts, 3)

\* Two further inputs of distinct points in dimension 3 with coordinates in
\* 0..2, six and eight points; the first four points of each are affinely
\* independent.
SixScattered ==
    << <<0, 1, 2>>, <<2, 2, 2>>, <<0, 0, 1>>, <<1, 0, 0>>, <<0, 2, 0>>, <<1, 1, 2>> >>

EightScattered ==
    << <<1, 2, 1>>, <<1, 1, 1>>, <<1, 0, 2>>, <<0, 1, 0>>, <<2, 1, 1>>, <<1, 1, 2>>,
       <<0, 0, 2>>, <<2, 1, 0>> >>

\* The prefixes of both inputs.
ScatteredInputs ==
    {SubSeq(SixScattered, 1, n) : n \in 0..6}
        \cup {SubSeq(EightScattered, 1, n) : n \in 0..8}

InitScattered ==
    /\ Fresh
    /\ other = Idle
    /\ \E pts \in ScatteredInputs : StartHull(pts, 3) \/ StartWasm(pts, 3)

\* generate_convex_hull_faces on every sequence of at most 3 + 1 + MaxExtra
\* points of Pool3, and on every sequence of at most 3 points of the plane.
InitFaces ==
    /\ Fresh
    /\ other = Idle
    /\ \/ \E pts \in PointSeqs(Pool3, 3 + 1 + MaxExtra) : StartFaces(pts, 3)
       \/ \E pts \in PointSeqs({<<0, 0>>, <<1, 0>>, <<0, 1>>}, 3) : StartFaces(pts, 2)

\* A call build_knn_edges(flat, d, kk) (knn.rs 53); flat_vertices holds the
\* argument flat_points.
StartKnn(flat, d, kk) ==
    /\ entry = "build_knn_edges"
    /\ flat_vertices = flat
    /\ dimension = d
    /\ knn_k = kk
    /\ pc = "Knn"

\* build_knn_edges on every buffer of at most MaxFlat coordinates out of
\* 0, 1, 3, read as points of dimension 0, 1 or 2, with k up to MaxK.
InitKnn ==
    /\ vertices = <<>>
    /\ dim = 0
    /\ centroid = <<>>
    /\ facets = <<>>
    /\ i = 0
    /\ result = <<>>
    /\ dropped = 0
    /\ edge_set = {}
    /\ other = Idle
    /\ \E flat \in PointSeqs({0, 1, 3}, MaxFlat) :
       \E d \in 0..2 :
       \E kk \in 0..MaxK : StartKnn(flat, d, kk)

\* Points in general position in dimension d: the origin, the d unit points
\* and the all-ones point; any d+1 of them are affinely independent.
PoolD(d) ==
    {Zeros(d)} \cup {[k \in 1..d |-> IF k = j THEN 1 ELSE 0] : j \in 1..d}
               \cup {[k \in 1..d |-> 1]}

Dims == {2, 3, 4}

\* In dimensions 2 and 3 one point beyond the simplex is offered for insertion;
\* dimension 4 contributes the simplex alone.
InitSimplex ==
    /\ Fresh
    /\ other = Idle
    /\ \E d \in Dims :
       \E pts \in InjectiveSeqs(PoolD(d), IF d < 4 THEN d + 2 ELSE d + 1) :
          StartHull(pts, d) \/ StartWasm(pts, d)

\* Buffers handed to compute_convex_hull_wasm with dimension 3: the N x 3
\* buffer of at most 3 + 1 + MaxExtra points of PoolRagged followed by 0, 1 or
\* 2 further scalars (1 or 2: the length is not a multiple of 3).
PoolRagged == { <<0, 0, 0>>, <<1, 0, 0>>, <<0, 1, 0>>, <<0, 0, 1>> }

InitRagged ==
    /\ Fresh
    /\ other = Idle
    /\ entry = "compute_convex_hull_wasm"
    /\ dimension = 3
    /\ vertices = <<>>
    /\ dim = 0
    /\ pc = "Adapter"
    /\ \E pts \in PointSeqs(PoolRagged, 3 + 1 + MaxExtra) :
       \E n \in 0..2 : \E tail \in Tuples({0, 1}, n) :
          flat_vertices = Flatten(pts) \o tail

\* Two direct calls convex_hull(pts, 3) at once: the first on 3 to 5 distinct
\* points of Pool3, the second on the first 3, 4 or 5 points of TwoCallOrder.
TwoCallOrder ==
    << <<0, 0, 0>>, <<0, 0, 1>>, <<0, 1, 0>>, <<1, 1, 1>>, <<1, 0, 0>> >>

InitTwoCalls ==
    /\ Fresh
    /\ \E n \in 3..5 : \E pts \in InjectiveOfLen(Pool3, n) : StartHull(pts, 3)
    /\ \E n \in 3..5 : other = OtherCall(SubSeq(TwoCallOrder, 1, n), 3, "Uninitialized")

(***************************************************************************)
(* Actions.                                                                *)
(***************************************************************************)
\* compute_convex_hull_wasm, lines 24-33 of lib.rs: rebuild the point vectors
\* and project them; convex_hull is then entered with the projected points.
Adapter ==
    /\ pc = "Adapter"
    /\ IF dimension = 0
       THEN /\ pc' = "Panicked"      \* flat_vertices.len() / dimension, line 27
            /\ UNCHANGED <<vertices, dim>>
       ELSE LET chunks == Chunks(flat_vertices, dimension)
                pr     == ProjectToAffineHull(chunks, dimension)
            IN  IF ProjectPanics(chunks, dimension)
                THEN /\ pc' = "Panicked"
                     /\ UNCHANGED <<vertices, dim>>
                ELSE /\ vertices' = pr.points
                     /\ dim' = pr.dim
                     /\ pc' = "Uninitialized"
    /\ UNCHANGED <<knn_k, edge_set, other, entry, flat_vertices, dimension, centroid, facets, i, result, dropped>>

\* hull.rs lines 216-219: fewer than dim+1 points.
Trivial ==
    /\ pc = "Uninitialized"
    /\ Len(vertices) <= dim
    /\ result' = TrivialHull(Len(vertices))
    /\ pc' = "Finalized"
    /\ UNCHANGED <<knn_k, edge_set, other, entry, flat_vertices, dimension, vertices, dim, centroid, facets, i,
                   dropped>>

\* hull.rs lines 221-244: centroid and initial simplex.
Initialize ==
    /\ pc = "Uninitialized"
    /\ Len(vertices) > dim
    /\ IF CentroidPanics(vertices, dim)
       THEN /\ pc' = "Panicked"
            /\ UNCHANGED <<centroid, facets, dropped, i>>
       ELSE LET cen == CentroidSum(vertices, dim)
            IN  /\ centroid' = cen
                /\ \E b \in BuildFacets(SimplexFaces(dim), vertices, cen) :
                      /\ facets' = b.facets
                      /\ dropped' = b.dropped
                      /\ IF b.panic
                         THEN pc' = "Panicked" /\ i' = i
                         ELSE pc' = "Seeded" /\ i' = dim + 1
    /\ UNCHANGED <<knn_k, edge_set, other, entry, flat_vertices, dimension, vertices, dim, result>>

\* hull.rs lines 247-312: one iteration of the loop, for point i.
Insert ==
    /\ pc \in {"Seeded", "Growing"}
    /\ i < Len(vertices)
    /\ \E o \in InsertOutcomes(facets, vertices, centroid, dim, i) :
          /\ facets' = o.facets
          /\ dropped' = dropped + o.dropped
          /\ pc' = IF o.panic THEN "Panicked" ELSE "Growing"
    /\ i' = i + 1
    /\ UNCHANGED <<knn_k, edge_set, other, entry, flat_vertices, dimension, vertices, dim, centroid, result>>

\* hull.rs lines 314-342: triangle extraction, once every point was offered.
Finalize ==
    /\ pc \in {"Seeded", "Growing"}
    /\ i >= Len(vertices)
    /\ result' = ExtractTriangles(facets)
    /\ pc' = "Finalized"
    /\ UNCHANGED <<knn_k, edge_set, other, entry, flat_vertices, dimension, vertices, dim, centroid, facets, i,
                   dropped>>

Next == Adapter \/ Trivial \/ Initialize \/ Insert \/ Finalize

(***************************************************************************)
(* generate_convex_hull_faces (wythoff.rs 671-703).                        *)
(***************************************************************************)
\* Lines 674-676: too few vertices for a simplex, or dim below 3.
FacesTooFew(n, d) == n < d + 1 \/ d < 3

\* Lines 685-688: the projected dimension is below 3, or too few points.
FacesTooFlat(pr) == pr.dim < 3 \/ Len(pr.points) < pr.dim + 1

\* Mutant of FacesResult: the hull's index list is discarded.
FacesResultEmpty(panicked, hull_indices) == <<>>

\* Lines 696-702: the hull's indices as u32, or no faces when the closure
\* given to catch_unwind panicked.
FacesResult(panicked, hull_indices) == IF panicked THEN <<>> ELSE hull_indices

\* Lines 671-689: the two early returns and the projection; then convex_hull
\* runs on the projected points.
GenerateFaces ==
    /\ pc = "Faces"
    /\ IF FacesTooFew(Len(vertices), dimension)
       THEN /\ result' = <<>>
            /\ pc' = "Returned"
            /\ UNCHANGED <<vertices, dim>>
       ELSE IF ProjectPanics(vertices, dimension)
       THEN /\ pc' = "Panicked"
            /\ UNCHANGED <<vertices, dim, result>>
       ELSE LET pr == ProjectToAffineHull(vertices, dimension)
            IN  IF FacesTooFlat(pr)
                THEN /\ result' = <<>>
                     /\ pc' = "Returned"
                     /\ UNCHANGED <<vertices, dim>>
                ELSE /\ vertices' = pr.points
                     /\ dim' = pr.dim
                     /\ pc' = "Uninitialized"
                     /\ UNCHANGED result
    /\ UNCHANGED <<knn_k, edge_set, other, entry, flat_vertices, dimension, centroid, facets, i, dropped>>

\* Lines 692-702: convex_hull has returned or panicked inside the closure
\* (dim >= 3: the closure was entered).
FacesReturn ==
    /\ entry = "generate_convex_hull_faces"
    /\ pc \in {"Finalized", "Panicked"}
    /\ dim >= 3
    /\ result' = FacesResult(pc = "Panicked", result)
    /\ pc' = "Returned"
    /\ UNCHANGED <<knn_k, edge_set, other, entry, flat_vertices, dimension, vertices, dim, centroid, facets, i,
                   dropped>>

\* convex_hull is entered with more than dim points (lines 674 and 686), so
\* its trivial return is not among the steps.
NextFaces == GenerateFaces \/ Initialize \/ Insert \/ Finalize \/ FacesReturn

(***************************************************************************)
(* build_knn_edges (knn.rs 53-111).                                        *)
(***************************************************************************)
\* Lines 35-42: the sum of squared differences over the zipped coordinates.
DistanceSquared(a, b) ==
    LET m == IF Len(a) < Len(b) THEN Len(a) ELSE Len(b)
    IN  SumSeq([c \in 1..m |-> (a[c] - b[c]) * (a[c] - b[c])])

\* Line 58: n = flat_points.len() / dimension.
KnnCount(flat, d) == Len(flat) \div d

\* Line 64: k.min(n - 1).
EffectiveK(kk, n) == IF kk < n - 1 THEN kk ELSE n - 1

\* Lines 54-67: the early returns.
KnnEmpty(flat, d, kk) ==
    \/ d = 0
    \/ Len(flat) < d
    \/ KnnCount(flat, d) = 0
    \/ kk = 0
    \/ EffectiveK(kk, KnnCount(flat, d)) = 0

\* Mutant of EdgeKey: the pair is stored as (i, j).
EdgeKeyDirected(a, b) == <<a, b>>

\* Line 98: the pair with its smaller index first.
EdgeKey(a, b) == IF a < b THEN <<a, b>> ELSE <<b, a>>

\* Lines 79-93: the heaps that scanning the points j..n-1 for point i0 can
\* leave.  A full heap gives up an entry of greatest distance for a strictly
\* nearer point; which of several entries of equal greatest distance
\* BinaryHeap::pop removes is not specified.
RECURSIVE KnnHeaps(_, _, _, _, _, _)
KnnHeaps(points, i0, j, n, effective_k, heap) ==
    IF j >= n THEN {heap}
    ELSE IF j = i0 THEN KnnHeaps(points, i0, j + 1, n, effective_k, heap)
    ELSE LET d2 == DistanceSquared(Pt(points, i0), Pt(points, j))
             e  == [idx |-> j, dist_sq |-> d2]
             tops == {t \in heap : \A u \in heap : u.dist_sq <= t.dist_sq}
         IN  IF Cardinality(heap) < effective_k
             THEN KnnHeaps(points, i0, j + 1, n, effective_k, heap \cup {e})
             ELSE IF \E t \in tops : d2 < t.dist_sq
             THEN UNION {KnnHeaps(points, i0, j + 1, n, effective_k, (heap \ {t}) \cup {e}) :
                           t \in tops}
             ELSE KnnHeaps(points, i0, j + 1, n, effective_k, heap)

\* Lines 53-73: the early returns, or the start of the scan.
KnnGuard ==
    /\ pc = "Knn"
    /\ IF KnnEmpty(flat_vertices, dimension, knn_k)
       THEN result' = <<>> /\ pc' = "Returned"
       ELSE result' = result /\ pc' = "Scanning"
    /\ i' = 0
    /\ edge_set' = {}
    /\ UNCHANGED <<knn_k, other, entry, flat_vertices, dimension, vertices, dim, centroid,
                   facets, dropped>>

\* Lines 75-101: one iteration of the outer loop, for point i.
KnnPoint ==
    /\ pc = "Scanning"
    /\ i < KnnCount(flat_vertices, dimension)
    /\ LET n == KnnCount(flat_vertices, dimension)
           points == Chunks(flat_vertices, dimension)
       IN  \E heap \in KnnHeaps(points, i, 0, n, EffectiveK(knn_k, n), {}) :
              edge_set' = edge_set \cup {EdgeKey(i, e.idx) : e \in heap}
    /\ i' = i + 1
    /\ UNCHANGED <<knn_k, other, entry, flat_vertices, dimension, vertices, dim, centroid,
                   facets, pc, result, dropped>>

\* Lines 103-110: the pairs flattened in the HashSet's iteration order.
KnnFlatten ==
    /\ pc = "Scanning"
    /\ i >= KnnCount(flat_vertices, dimension)
    /\ \E order \in Perms(edge_set) : result' = Flatten(order)
    /\ pc' = "Returned"
    /\ UNCHANGED <<knn_k, edge_set, other, entry, flat_vertices, dimension, vertices, dim,
                   centroid, facets, i, dropped>>

NextKnn == KnnGuard \/ KnnPoint \/ KnnFlatten

\* The same steps of hull.rs for the second call, on its own locals.
FirstCallVars ==
    <<entry, flat_vertices, dimension, vertices, dim, centroid, facets, i, pc, result,
      dropped, knn_k, edge_set>>

\* Mutant of OtherFacets: the second call works on the first call's facet list.
SharedFacets == facets

\* `let mut facets` of the second call (line 233).
OtherFacets == other.facets

OtherTrivial ==
    /\ other.pc = "Uninitialized"
    /\ Len(other.vertices) <= other.dim
    /\ other' = [other EXCEPT !.result = TrivialHull(Len(other.vertices)),
                              !.pc = "Finalized"]
    /\ UNCHANGED FirstCallVars

OtherInitialize ==
    /\ other.pc = "Uninitialized"
    /\ Len(other.vertices) > other.dim
    /\ IF CentroidPanics(other.vertices, other.dim)
       THEN other' = [other EXCEPT !.pc = "Panicked"]
       ELSE LET cen == CentroidSum(other.vertices, other.dim)
            IN  \E b \in BuildFacets(SimplexFaces(other.dim), other.vertices, cen) :
                   other' = [other EXCEPT
                               !.centroid = cen,
                               !.facets = b.facets,
                               !.pc = IF b.panic THEN "Panicked" ELSE "Seeded",
                               !.i = IF b.panic THEN other.i ELSE other.dim + 1]
    /\ UNCHANGED FirstCallVars

OtherInsert ==
    /\ other.pc \in {"Seeded", "Growing"}
    /\ other.i < Len(other.vertices)
    /\ \E o \in InsertOutcomes(OtherFacets, other.vertices, other.centroid, other.dim,
                                other.i) :
          other' = [other EXCEPT
                      !.facets = o.facets,
                      !.pc = IF o.panic THEN "Panicked" ELSE "Growing",
                      !.i = other.i + 1]
    /\ UNCHANGED FirstCallVars

OtherFinalize ==
    /\ other.pc \in {"Seeded", "Growing"}
    /\ other.i >= Len(other.vertices)
    /\ other' = [other EXCEPT !.result = ExtractTriangles(OtherFacets),
                              !.pc = "Finalized"]
    /\ UNCHANGED FirstCallVars

NextTwoCalls ==
    \/ Trivial \/ Initialize \/ Insert \/ Finalize
    \/ OtherTrivial \/ OtherInitialize \/ OtherInsert \/ OtherFinalize

Spec == Init /\ [][Next]_vars

SpecCube == InitCube /\ [][Next]_vars

SpecSimplex == InitSimplex /\ [][Next]_vars

SpecRagged == InitRagged /\ [][Next]_vars

SpecScattered == InitScattered /\ [][Next]_vars

SpecFaces == InitFaces /\ [][NextFaces]_vars

SpecKnn == InitKnn /\ [][NextKnn]_vars

SpecTwoCalls == InitTwoCalls /\ [][NextTwoCalls]_vars

(***************************************************************************)
(* Vocabulary of the properties.                                           *)
(***************************************************************************)
\* normal.p - offset <= 1e-9: p is not strictly visible from f.
OnNonPositiveSide(f, p) == ~ExceedsEps(Dot(f.normal, p) - f.offset, f.len2)

VertexSet(f) == {f.vertices[k] : k \in 1..Len(f.vertices)}

\* The first d+1 points are affinely independent.
AffinelyIndependent(pts, d) ==
    Det([k \in 1..d |-> Sub(pts[k + 1], pts[1])]) # 0

\* Every point is a vertex of the hull of all of them: some direction with
\* components in -1..1 has its strict maximum over the points there.
ConvexPosition(pts, d) ==
    \A a \in 1..Len(pts) :
       \E u \in Tuples({0 - 1, 0, 1}, d) :
          \A b \in 1..Len(pts) : b # a => Dot(u, Sub(pts[a], pts[b])) > 0

\* The unordered index triples of a flat triangle list.
TriangleSet(res) ==
    {{res[3 * k - 2], res[3 * k - 1], res[3 * k]} : k \in 1..(Len(res) \div 3)}

InitDone == pc \in {"Seeded", "Growing", "Finalized"}

\* Rank of a sequence of integer vectors, by fraction-free elimination.
RECURSIVE Rank(_)
Rank(rows) ==
    LET nz == {k \in 1..Len(rows) : \E c \in 1..Len(rows[k]) : rows[k][c] # 0}
    IN  IF nz = {} THEN 0
        ELSE LET k0 == CHOOSE k \in nz : \A m \in nz : k <= m
                 r0 == rows[k0]
                 c0 == CHOOSE c \in 1..Len(r0) :
                          r0[c] # 0 /\ \A e \in 1..(c - 1) : r0[e] = 0
                 rest == [k \in 1..(Len(rows) - k0) |->
                            Primitive(Sub(Scale(r0[c0], rows[k0 + k]),
                                          Scale(rows[k0 + k][c0], r0)))]
             IN  1 + Rank(rest)

\* The points with the 0-based indices vs are affinely dependent.
AffinelyDependent(pts, vs) ==
    Rank([k \in 1..(Len(vs) - 1) |-> Sub(Pt(pts, vs[k + 1]), Pt(pts, vs[1]))])
        < Len(vs) - 1

(***************************************************************************)
(* C1.  After convex_hull completes on at least dim+1 points, no input     *)
(* point is strictly visible from any final facet:                         *)
(* normal.p - offset <= 1e-9 for every final facet and every input point.  *)
(***************************************************************************)
C1_Convexity ==
    (pc = "Finalized" /\ Len(vertices) >= dim + 1)
        => \A k \in 1..Len(facets) : \A p \in 1..Len(vertices) :
              OnNonPositiveSide(facets[k], vertices[p])

(***************************************************************************)
(* C2.  An insertion of a point that no current facet sees leaves the      *)
(* facet list exactly as it was.                                           *)
(***************************************************************************)
C2_InteriorUnchanged ==
    [][(/\ pc \in {"Seeded", "Growing"}
        /\ i < Len(vertices)
        /\ \A k \in 1..Len(facets) : OnNonPositiveSide(facets[k], Pt(vertices, i)))
          => facets' = facets]_vars

\* An interior point was offered to the untouched initial simplex.
C2_Witness ==
    /\ pc = "Growing"
    /\ dim = 3
    /\ i = dim + 2
    /\ Len(facets) = dim + 1
    /\ \A k \in 1..Len(facets) :
          /\ (i - 1) \notin VertexSet(facets[k])
          /\ OnNonPositiveSide(facets[k], Pt(vertices, i - 1))
    /\ \A k \in 0..dim : Pt(vertices, k) # Pt(vertices, i - 1)

(***************************************************************************)
(* C3.  After initialization and after every insertion, every point        *)
(* offered so far (index < i) is on the non-positive side of every current *)
(* facet.                                                                  *)
(***************************************************************************)
C3_PartialHull ==
    pc \in {"Seeded", "Growing"}
        => \A k \in 1..Len(facets) : \A p \in 0..(i - 1) :
              OnNonPositiveSide(facets[k], Pt(vertices, p))

(***************************************************************************)
(* C4.  For points in convex position whose first dim+1 points are         *)
(* affinely independent and with no facet construction failing, every      *)
(* ridge of a final facet lies in exactly 2 final facets.                  *)
(***************************************************************************)
C4_Closure ==
    (/\ pc = "Finalized"
     /\ Len(vertices) >= dim + 1
     /\ dropped = 0
     /\ AffinelyIndependent(vertices, dim)
     /\ ConvexPosition(vertices, dim))
        => \A k \in 1..Len(facets) : \A v \in VertexSet(facets[k]) :
              Cardinality({m \in 1..Len(facets) :
                             VertexSet(facets[k]) \ {v} \subseteq VertexSet(facets[m])}) = 2

C6_Cube ==
    (/\ pc = "Finalized"
     /\ Len(vertices) = 8
     /\ {vertices[k] : k \in 1..Len(vertices)} = Tuples({0 - 1, 1}, 3))
        => /\ Len(result) = 36
           /\ \A k \in 1..Len(facets) : \A p \in 1..Len(vertices) :
                 OnNonPositiveSide(facets[k], vertices[p])

RECURSIVE RunFrom(_, _, _, _, _)
RunFrom(fs, pts, cen, d, idx) ==
    IF idx >= Len(pts) THEN fs
    ELSE RunFrom((CHOOSE o \in InsertOutcomes(fs, pts, cen, d, idx) : TRUE).facets,
                 pts, cen, d, idx + 1)

RunFacets(pts, d) ==
    LET cen == CentroidSum(pts, d)
    IN  RunFrom((CHOOSE b \in BuildFacets(SimplexFaces(d), pts, cen) : TRUE).facets,
                pts, cen, d, d + 1)

CubeReference ==
    [o \in CubeOrders |-> TriangleSet(ExtractTriangles(RunFacets(o, 3)))]

C8_Duplicate ==
    (/\ pc = "Finalized"
     /\ Len(vertices) = 9
     /\ SubSeq(vertices, 1, 8) \in CubeOrders)
        => TriangleSet(result) = CubeReference[SubSeq(vertices, 1, 8)]

(***************************************************************************)
(* C9.  compute_convex_hull_wasm returns an index list for every input     *)
(* whose points all have length D: no panic escapes.                       *)
(***************************************************************************)
C9_NoPanic == entry = "compute_convex_hull_wasm" => pc # "Panicked"

(***************************************************************************)
(* C10.  convex_hull on at most dim points returns 0, 1, ..., N-1 in       *)
(* ascending order, builds no facet and ends without a panic.              *)
(***************************************************************************)
C10_Trivial ==
    (Len(vertices) <= dim /\ pc \notin {"Adapter", "Uninitialized"})
        => /\ pc = "Finalized"
           /\ Len(result) = Len(vertices)
           /\ \A k \in 1..Len(result) : result[k] = k - 1
           /\ facets = <<>>

\* A direct call with exactly dim points has returned.
C10_Witness ==
    /\ pc = "Finalized"
    /\ entry = "convex_hull"
    /\ Len(vertices) = dim
    /\ dim = 3
    /\ result = <<0, 1, 2>>

(***************************************************************************)
(* C11.  compute_convex_hull_wasm on a buffer whose length is not a        *)
(* multiple of the dimension rejects it before the projection or the hull  *)
(* is run: the call never gets past the adapter except into a rejection,   *)
(* an outcome of its own that is neither an index list nor a panic.        *)
(***************************************************************************)
C11_ShapeRejected ==
    (/\ entry = "compute_convex_hull_wasm"
     /\ dimension > 0
     /\ Len(flat_vertices) % dimension # 0)
        => pc \in {"Adapter", "Rejected"}

C13_FacetIffIndependent ==
    /\ \A k \in 1..Len(facets) : ~AffinelyDependent(vertices, facets[k].vertices)
    /\ pc = "Seeded" =>
          \A k \in 1..(dim + 1) :
             ~AffinelyDependent(vertices, SimplexFaces(dim)[k])
                => \E m \in 1..Len(facets) : facets[m].vertices = SimplexFaces(dim)[k]

(***************************************************************************)
(* C14.  Through compute_convex_hull_wasm the projected point list has one *)
(* point per input point, in input order: point 0 is the origin of the     *)
(* reduced coordinates, and two projected points are equal exactly when    *)
(* the input points at those positions are.  Every index of the returned   *)
(* list is a position 0..N-1 of the input.                                 *)
(***************************************************************************)
C14_IndicesAreInputPositions ==
    (entry = "compute_convex_hull_wasm" /\ pc # "Adapter") =>
        LET input == Chunks(flat_vertices, dimension)
            N     == Len(input)
        IN  /\ Len(vertices) = N
            /\ \A a, b \in 1..N : (vertices[a] = vertices[b]) <=> (input[a] = input[b])
            /\ (N >= 2 /\ dim < dimension) => vertices[1] = Zeros(dim)
            /\ (N >= 2 /\ dim = dimension) => vertices = input
            /\ pc = "Finalized" => \A k \in 1..Len(result) : result[k] \in 0..(N - 1)

\* Four points of 4-space, projected to their 3-dimensional affine hull: the
\* 4 triangles of the tetrahedron on the input positions 0..3.
C14_Witness ==
    /\ entry = "compute_convex_hull_wasm"
    /\ pc = "Finalized"
    /\ dimension = 4
    /\ dim = 3
    /\ Len(vertices) = 4
    /\ TriangleSet(result) = {{1, 2, 3}, {0, 2, 3}, {0, 1, 3}, {0, 1, 2}}

(***************************************************************************)
(* C15.  For at least 2 input points the dimension returned by             *)
(* project_to_affine_hull is the rank of the differences p_k - p_0, it is  *)
(* at most D, and every returned point has exactly that many coordinates.  *)
(***************************************************************************)
C15_DimIsRank ==
    (/\ entry = "compute_convex_hull_wasm"
     /\ pc # "Adapter"
     /\ Len(flat_vertices) >= 2 * dimension)
        => LET input == Chunks(flat_vertices, dimension)
           IN  /\ dim = Rank([k \in 1..(Len(input) - 1) |-> Sub(input[k + 1], input[1])])
               /\ dim <= dimension
               /\ \A p \in 1..Len(vertices) : Len(vertices[p]) = dim

\* Five points of 3-space, the first two equal, in a common plane: rank 2.
C15_Witness ==
    /\ entry = "compute_convex_hull_wasm"
    /\ pc = "Uninitialized"
    /\ Len(vertices) = 5
    /\ dim = 2
    /\ vertices[1] = vertices[2]
    /\ \A p \in 1..Len(vertices) : Len(vertices[p]) = 2

(***************************************************************************)
(* C16.  A point set whose differences from point 0 have rank D comes back *)
(* from project_to_affine_hull with every coordinate unchanged and         *)
(* dimension D; and projecting the output of a projection again, with its  *)
(* dimension as D, returns the same points and the same dimension.         *)
(***************************************************************************)
C16_ProjectionIdempotent ==
    (entry = "compute_convex_hull_wasm" /\ pc # "Adapter")
        => LET input == Chunks(flat_vertices, dimension)
           IN  /\ (/\ Len(input) >= 2
                   /\ Rank([k \in 1..(Len(input) - 1) |-> Sub(input[k + 1], input[1])])
                         = dimension)
                     => (vertices = input /\ dim = dimension)
               /\ ProjectToAffineHull(vertices, dim) = [points |-> vertices, dim |-> dim]

\* Four points of a plane of 3-space, three of them distinct, reduced to 2
\* coordinates.
C16_Witness ==
    /\ entry = "compute_convex_hull_wasm"
    /\ pc = "Seeded"
    /\ dimension = 3
    /\ dim = 2
    /\ Len(vertices) = 4
    /\ Cardinality({vertices[a] : a \in 1..4}) = 3

(***************************************************************************)
(* C17.  The list returned after the facet loop holds exactly the          *)
(* 3-element subsets of the vertex sets of the final facets: each of them  *)
(* once, whatever number of facets it lies in, and each as three ascending *)
(* indices.                                                                *)
(***************************************************************************)
C17_TrianglesOnce ==
    (pc = "Finalized" /\ Len(vertices) > dim)
        => LET triples == {T \in SUBSET (0..(Len(vertices) - 1)) :
                             /\ Cardinality(T) = 3
                             /\ \E k \in 1..Len(facets) : T \subseteq VertexSet(facets[k])}
           IN  /\ Len(result) = 3 * Cardinality(triples)
               /\ TriangleSet(result) = triples
               /\ \A k \in 1..(Len(result) \div 3) :
                     /\ result[3 * k - 2] < result[3 * k - 1]
                     /\ result[3 * k - 1] < result[3 * k]

\* The 4-simplex: 5 facets of 4 vertices, 20 triples with repetition, the 10
\* triangles on 5 points in the result.
C17_Witness ==
    /\ pc = "Finalized"
    /\ dim = 4
    /\ Len(facets) = 5
    /\ \A k \in 1..Len(facets) : Len(facets[k].vertices) = 4
    /\ Len(result) = 30

(***************************************************************************)
(* C18.  Every step of a run of convex_hull is one of these, and nothing   *)
(* else: from Uninitialized, the trivial return (at most dim points) or    *)
(* the construction of the initial simplex on points 0..dim, after which   *)
(* the next point is dim+1; from Seeded or Growing with points left, the   *)
(* insertion of point i into the current facet list, after which the next  *)
(* point is i+1; from Seeded or Growing with no point left, the triangle   *)
(* extraction from the current facet list.  Nothing follows Finalized, and *)
(* Uninitialized is never entered again.                                   *)
(***************************************************************************)
C18_PhaseOrder ==
    [][\/ pc = "Adapter" /\ pc' = "Uninitialized"
       \/ /\ pc = "Uninitialized"
          /\ Len(vertices) <= dim
          /\ pc' = "Finalized"
          /\ facets' = <<>>
       \/ /\ pc = "Uninitialized"
          /\ Len(vertices) > dim
          /\ pc' = "Seeded"
          /\ i' = dim + 1
          /\ \A m \in 1..Len(facets') : VertexSet(facets'[m]) \subseteq 0..dim
       \/ /\ pc \in {"Seeded", "Growing"}
          /\ i \in (dim + 1)..(Len(vertices) - 1)
          /\ pc' = "Growing"
          /\ i' = i + 1
          /\ \A m \in 1..Len(facets') :
                \/ \E k \in 1..Len(facets) : facets'[m] = facets[k]
                \/ i \in VertexSet(facets'[m])
       \/ /\ pc \in {"Seeded", "Growing"}
          /\ i = Len(vertices)
          /\ pc' = "Finalized"
          /\ facets' = facets
          /\ i' = i]_vars

(***************************************************************************)
(* C19.  In exact arithmetic the facets of a run, as a set of vertex sets, *)
(* and the set of returned triangles are the same whatever order the       *)
(* horizon ridges leave the ridge-count map in (and hence whatever order   *)
(* the new facets are appended in): in dimension 3 they are, after every   *)
(* step, those of the run that takes one fixed order at each insertion.    *)
(***************************************************************************)
\* The facet list after the points below upto were offered, one order chosen
\* at each insertion.
InsertInFixedOrder(fs, pts, cen, d, idx) ==
    LET vis   == VisibleIndices(fs, Pt(pts, idx))
        order == CHOOSE q \in Perms(Horizon(fs, vis, d)) : TRUE
        new   == CHOOSE b \in Collect([k \in 1..Len(order) |->
                                         FacetNew(Append(order[k], idx), pts, cen)]) : TRUE
    IN  IF vis = {} THEN fs ELSE KeepInvisible(fs, vis, 1) \o new.facets

RECURSIVE RunUpTo(_, _, _, _, _, _)
RunUpTo(fs, pts, cen, d, idx, upto) ==
    IF idx >= upto THEN fs
    ELSE RunUpTo(InsertInFixedOrder(fs, pts, cen, d, idx), pts, cen, d, idx + 1, upto)

ReferenceFacets(pts, d, upto) ==
    LET cen == CentroidSum(pts, d)
    IN  RunUpTo((CHOOSE b \in BuildFacets(SimplexFaces(d), pts, cen) : TRUE).facets,
                pts, cen, d, d + 1, upto)

FacetVertexSets(fs) == {VertexSet(fs[k]) : k \in 1..Len(fs)}

AsAlone(st) ==
    IF Len(st.vertices) <= st.dim
    THEN /\ st.facets = <<>>
         /\ st.pc = "Finalized" => st.result = TrivialHull(Len(st.vertices))
    ELSE st.pc \in {"Seeded", "Growing", "Finalized"} =>
            LET ref == ReferenceFacets(st.vertices, st.dim, st.i)
            IN  /\ FacetVertexSets(st.facets) = FacetVertexSets(ref)
                /\ Len(st.facets) = Len(ref)
                /\ st.pc = "Finalized" =>
                      /\ TriangleSet(st.result) = TriangleSet(ExtractTriangles(ref))
                      /\ Len(st.result) = Len(ExtractTriangles(ref))

C20_Reentrant ==
    /\ [](/\ AsAlone([vertices |-> vertices, dim |-> dim, facets |-> facets, i |-> i,
                      pc |-> pc, result |-> result])
          /\ AsAlone(other))
    /\ [][/\ other' # other => UNCHANGED FirstCallVars
          /\ FirstCallVars' # FirstCallVars => other' = other]_vars

\* Both calls in the middle of their runs, each having replaced facets of
\* its own hull for its fifth point.
C20_Witness ==
    /\ pc = "Growing"
    /\ other.pc = "Growing"
    /\ i = 5
    /\ other.i = 5
    /\ vertices # other.vertices
    /\ \E k \in 1..Len(facets) : 4 \in VertexSet(facets[k])
    /\ \E k \in 1..Len(other.facets) : 4 \in VertexSet(other.facets[k])
    /\ FacetVertexSets(facets) # FacetVertexSets(other.facets)

(***************************************************************************)
(* C21.  Every vertex list handed to Facet::new by convex_hull, for the    *)
(* initial simplex and at every insertion, has exactly dim pairwise        *)
(* distinct indices of input points, and so has every facet of the facet   *)
(* list.                                                                   *)
(***************************************************************************)
DistinctIndices(vs, n, d) ==
    /\ Len(vs) = d
    /\ \A a \in 1..Len(vs) : vs[a] \in 0..(n - 1)
    /\ \A a, b \in 1..Len(vs) : a # b => vs[a] # vs[b]

C21_DistinctVertices ==
    /\ \A k \in 1..Len(facets) : DistinctIndices(facets[k].vertices, Len(vertices), dim)
    /\ (pc = "Uninitialized" /\ Len(vertices) > dim)
          => \A k \in 1..(dim + 1) :
                DistinctIndices(SimplexFaces(dim)[k], Len(vertices), dim)
    /\ (pc \in {"Seeded", "Growing"} /\ i < Len(vertices))
          => \A key \in Horizon(facets, VisibleIndices(facets, Pt(vertices, i)), dim) :
                DistinctIndices(Append(key, i), Len(vertices), dim)

\* A point outside a triangle of the plane was inserted: facets on it.
C21_Witness ==
    /\ pc = "Growing"
    /\ dim = 2
    /\ Len(vertices) = 4
    /\ \E k \in 1..Len(facets) : 3 \in VertexSet(facets[k])
    /\ Len(facets) >= 3

(***************************************************************************)
(* C22.  An insertion of point i that some facets see (the set V) leaves   *)
(* the facets outside V, unchanged and in their order, followed by new     *)
(* facets: one on ridge + {i} for every ridge that lies in exactly one     *)
(* facet of V and whose construction succeeds, and nothing else; a ridge   *)
(* lying in two facets of V gets no facet.                                 *)
(***************************************************************************)
RidgeSets(f) == {VertexSet(f) \ {v} : v \in VertexSet(f)}

C22_InsertReplaces ==
    [][(/\ pc \in {"Seeded", "Growing"}
        /\ i < Len(vertices)
        /\ pc' # "Panicked"
        /\ \E k \in 1..Len(facets) : IsVisible(facets[k], Pt(vertices, i)))
         => LET V       == {k \in 1..Len(facets) : IsVisible(facets[k], Pt(vertices, i))}
                inV(R)  == Cardinality({k \in V : R \in RidgeSets(facets[k])})
                once    == {R \in UNION {RidgeSets(facets[k]) : k \in V} : inV(R) = 1}
                nkept   == Len(facets) - Cardinality(V)
                new     == {VertexSet(facets'[m]) : m \in (nkept + 1)..Len(facets')}
            IN  /\ Len(facets') >= nkept
                /\ SubSeq(facets', 1, nkept) = KeepInvisible(facets, V, 1)
                /\ new \subseteq {R \cup {i} : R \in once}
                /\ Len(facets') - nkept = Cardinality(new)
                /\ \A R \in once :
                      (R \cup {i}) \in new
                         \/ (dim = 3 /\ \E vs \in Perms(R \cup {i}) :
                                            AffinelyDependent(vertices, vs))]_vars

\* The inserted point saw two facets with a common ridge: 4 facets on it
\* replaced them.
C22_Witness ==
    /\ pc = "Growing"
    /\ dim = 3
    /\ Len(vertices) = 5
    /\ Len(facets) = 6
    /\ Cardinality({k \in 1..Len(facets) : 4 \in VertexSet(facets[k])}) = 4

(***************************************************************************)
(* C23.  At every insertion each horizon ridge (a ridge lying in exactly   *)
(* one visible facet) is a ridge of exactly one facet that does not see    *)
(* the point.                                                              *)
(***************************************************************************)
C23_HorizonHasNeighbour ==
    (pc \in {"Seeded", "Growing"} /\ i < Len(vertices))
        => LET V      == {k \in 1..Len(facets) : IsVisible(facets[k], Pt(vertices, i))}
               inV(R) == Cardinality({k \in V : R \in RidgeSets(facets[k])})
               once   == {R \in UNION {RidgeSets(facets[k]) : k \in V} : inV(R) = 1}
           IN  \A R \in once :
                  Cardinality({k \in (1..Len(facets)) \ V : R \in RidgeSets(facets[k])}) = 1

(***************************************************************************)
(* C24.  At every insertion no ridge lies in more than two of the facets   *)
(* that see the inserted point.                                            *)
(***************************************************************************)
C24_RidgeAtMostTwice ==
    (pc \in {"Seeded", "Growing"} /\ i < Len(vertices))
        => LET V == {k \in 1..Len(facets) : IsVisible(facets[k], Pt(vertices, i))}
           IN  \A R \in UNION {RidgeSets(facets[k]) : k \in V} :
                  Cardinality({k \in V : R \in RidgeSets(facets[k])}) <= 2

(***************************************************************************)
(* C25.  In dimension 3 no two facets of the facet list have the same      *)
(* vertex set, and the returned list has exactly one triangle per final    *)
(* facet, the facet's own vertices.                                        *)
(***************************************************************************)
C25_OneTrianglePerFacet ==
    (dim = 3 /\ Len(vertices) > dim)
        => /\ \A k, m \in 1..Len(facets) :
                 k # m => VertexSet(facets[k]) # VertexSet(facets[m])
           /\ pc = "Finalized" =>
                 /\ Len(result) = 3 * Len(facets)
                 /\ \A k \in 1..Len(facets) :
                       {result[3 * k - 2], result[3 * k - 1], result[3 * k]}
                          = VertexSet(facets[k])

\* A finalized run in dimension 3 with at least one insertion that replaced
\* facets: 6 facets and 6 triangles.
C25_Witness ==
    /\ pc = "Finalized"
    /\ dim = 3
    /\ Len(vertices) = 5
    /\ Len(facets) = 6
    /\ Len(result) = 18

(***************************************************************************)
(* C27.  Once the initial simplex has given at least one facet the facet   *)
(* list is never empty, and an insertion that removes facets appends at    *)
(* least one facet holding the inserted point.                             *)
(***************************************************************************)
(* C26.  compute_convex_hull_wasm on at least 3 points of 3-space that lie *)
(* in a common plane but not on a common line never panics, works in       *)
(* dimension 2 on facets of 2 vertices each, and returns the empty         *)
(* triangle list.                                                          *)
(***************************************************************************)
C26_CoplanarEmpty ==
    LET input == Chunks(flat_vertices, dimension)
    IN  (/\ entry = "compute_convex_hull_wasm"
         /\ pc # "Adapter"
         /\ dimension = 3
         /\ Len(input) >= 3
         /\ Rank([k \in 1..(Len(input) - 1) |-> Sub(input[k + 1], input[1])]) = 2)
            => /\ pc # "Panicked"
               /\ dim = 2
               /\ \A k \in 1..Len(facets) : Len(facets[k].vertices) = 2
               /\ pc = "Finalized" => result = <<>>

\* Four distinct points of a plane of 3-space, hulled in 2 coordinates with
\* an insertion, and the empty list returned.
C26_Witness ==
    /\ entry = "compute_convex_hull_wasm"
    /\ dimension = 3
    /\ pc = "Finalized"
    /\ Len(vertices) = 4
    /\ Cardinality({vertices[a] : a \in 1..4}) = 4
    /\ dim = 2
    /\ Len(facets) >= 3
    /\ result = <<>>

(***************************************************************************)
C27_NeverEmpty ==
    [][(/\ pc \in {"Seeded", "Growing"}
        /\ i < Len(vertices)
        /\ facets # <<>>
        /\ pc' # "Panicked")
         => /\ facets' # <<>>
            /\ (\E k \in 1..Len(facets) : IsVisible(facets[k], Pt(vertices, i)))
                  => \E m \in 1..Len(facets') : i \in VertexSet(facets'[m])]_vars

(***************************************************************************)
(* C28.  Every run of convex_hull terminates in finalize: the number of    *)
(* steps left, at most one per point not yet offered plus the phases still *)
(* to come, decreases with every step; at most N - d' - 1 insertions are   *)
(* performed; and no run ends in a panic instead of finalize.              *)
(***************************************************************************)
Insertions == IF pc \in {"Seeded", "Growing", "Finalized"} /\ i > dim THEN i - dim - 1 ELSE 0

StepsLeft ==
    CASE pc = "Adapter" ->
            (IF dimension = 0 THEN 0 ELSE Len(flat_vertices) \div dimension) + 3
      [] pc = "Uninitialized" -> Len(vertices) + 2
      [] pc \in {"Seeded", "Growing"} ->
            (IF i < Len(vertices) THEN Len(vertices) - i ELSE 0) + 1
      [] OTHER -> 0

C28_Terminates ==
    /\ [](pc # "Panicked")
    /\ [](Insertions <= IF Len(vertices) > dim THEN Len(vertices) - dim - 1 ELSE 0)
    /\ [][StepsLeft' < StepsLeft /\ StepsLeft' >= 0]_vars

(***************************************************************************)
(* C29.  generate_convex_hull_faces never ends in a panic.  It returns no  *)
(* faces when there are fewer than dim+1 vertices, when dim < 3 or when    *)
(* the projected dimension is below 3; otherwise convex_hull runs on the   *)
(* projected points, with more points than coordinates, and the list       *)
(* returned is the list convex_hull returned, or no faces if it panicked.  *)
(***************************************************************************)
C29_FacesOrEmpty ==
    /\ [](entry = "generate_convex_hull_faces" =>
            /\ pc = "Panicked" => ENABLED FacesReturn
            /\ pc \in {"Uninitialized", "Seeded", "Growing", "Finalized"} =>
                  /\ ~FacesTooFew(Len(vertices), dimension)
                  /\ LET pr == ProjectToAffineHull(Chunks(flat_vertices, dimension),
                                                   dimension)
                     IN  pr.dim >= 3 /\ vertices = pr.points /\ dim = pr.dim
                  /\ Len(vertices) > dim
            /\ pc = "Returned" =>
                  IF FacesTooFew(Len(vertices), dimension)
                  THEN result = <<>>
                  ELSE LET pr == ProjectToAffineHull(Chunks(flat_vertices, dimension),
                                                    dimension)
                       IN  IF pr.dim < 3
                           THEN result = <<>>
                           ELSE /\ vertices = pr.points
                                /\ dim = pr.dim
                                /\ i >= Len(vertices))
    /\ [][(entry = "generate_convex_hull_faces" /\ pc' = "Returned") =>
            \/ pc = "Faces" /\ result' = <<>>
            \/ pc = "Finalized" /\ result' = result
            \/ pc = "Panicked" /\ result' = <<>>]_vars

\* Five points of 3-space, not in a common plane: the faces returned are the
\* hull's triangles.
C29_Witness ==
    /\ entry = "generate_convex_hull_faces"
    /\ pc = "Returned"
    /\ Len(vertices) = 5
    /\ dim = 3
    /\ Len(facets) >= 4
    /\ result = ExtractTriangles(facets)
    /\ Len(result) >= 12

(***************************************************************************)
(* C30.  With n = flat_points.len() / dimension: for n >= 2 and k >= n - 1 *)
(* build_knn_edges returns every pair a < b of 0..n-1 exactly once, as     *)
(* (a, b); for n < 2, k = 0 or dimension = 0 it returns the empty list.    *)
(***************************************************************************)
C30_AllPairs ==
    (entry = "build_knn_edges" /\ pc = "Returned")
        => LET n == IF dimension = 0 THEN 0 ELSE Len(flat_vertices) \div dimension
               pairs == {<<result[2 * m - 1], result[2 * m]>> : m \in 1..(Len(result) \div 2)}
           IN  /\ (n >= 2 /\ knn_k >= n - 1)
                     => /\ Len(result) = n * (n - 1)
                        /\ pairs = {q \in (0..(n - 1)) \X (0..(n - 1)) : q[1] < q[2]}
               /\ (n < 2 \/ knn_k = 0 \/ dimension = 0) => result = <<>>

\* Three points on a line and k = 3 > n - 1: the three pairs are returned.
C30_Witness ==
    /\ entry = "build_knn_edges"
    /\ pc = "Returned"
    /\ dimension = 1
    /\ Len(flat_vertices) = 3
    /\ knn_k = 3
    /\ Len(result) = 6

=============================================================================
